---------------------------- MODULE Spec2Model ----------------------------
(***************************************************************************)
(* State-machine model of the bubble shooter component                     *)
(* (bubble-shooter/src/components/BubbleShooter.tsx).                      *)
(*                                                                         *)
(* Positions are whole pixels, times whole milliseconds, angles whole      *)
(* milliradians; direction components are scaled by Unit (= 1000).         *)
(* The helpers imported from @/lib/gameUtils and @/constants/levels are    *)
(* not part of the component file; they are modelled from the design       *)
(* document (sections 4.1 - 4.6).                                          *)
(***************************************************************************)
EXTENDS Integers, Sequences, FiniteSets, TLC

(***************************************************************************)
(* Bounds of the model                                                     *)
(***************************************************************************)
\* the clock stops advancing once it has reached MaxTime (ms)
MaxTime == 1750
\* at most MaxShots accepted fires per behaviour
MaxShots == 2
\* at most MaxResets level resets (advance / restart buttons) per behaviour
MaxResets == 1
\* at most MaxKeys changes of the aim (pointer moves, arrow keys) per behaviour
MaxKeys == 1
\* the time between two frames, ms
FrameMs == 250
\* ComboSpec: a match result reports at most MaxRemoved removed cells
MaxRemoved == 2
\* ComboSpec: and a combo bonus of at most MaxBonus
MaxBonus == 1
\* ComboSpec: scoring stops once the score would pass MaxScore
MaxScore == 800

(***************************************************************************)
(* Literals of the component                                               *)
(***************************************************************************)
MAX_COMBO_MULTIPLIER == 8
InitialLives == 3
SideMargin == 24
OverlapTolerance == 2
FreezeDuration == 5000
AimBoostDuration == 7000
BaseShotSpeed == 520
ShotSpeedPerLevel == 16
ShotSpeedCap == 220
LaunchGap == 4
MsPerSecond == 1000
EffectDuration == 420
WavePeriod == 900
DefaultAmplitude == 20
\* the frozen descent interval is 1.65 times the level's: 165 / 100
FreezeFactor == 165
Percent == 100
\* fixed-point scale of direction components and of angles (1 rad = Unit mrad)
Unit == 1000
\* pi in milliradians
Pi == 3142
\* aimAngleConstraints: (-4 * pi) / 5 and (-1 * pi) / 8, in milliradians
AimMin == -2513
AimMax == -393
\* one arrow-key step, 0.08 rad
AimStep == 80

(***************************************************************************)
(* gameUtils / levels: constants (values are not in the component file)    *)
(***************************************************************************)
GRID_COLS == 3
MAX_ROWS == 5
FAILURE_ROW == 3
RowHeight == 35
GAME_METRICS ==
    [width |-> 200, height |-> 480, bubbleRadius |-> 20,
     topMargin |-> 40, shooterY |-> 452]

None == [has |-> FALSE, val |-> 0]
Some(v) == [has |-> TRUE, val |-> v]

LEVELS ==
    << [level |-> 1, descentInterval |-> 1000, timeLimitSeconds |-> Some(1),
        movingRows |-> {1}, movingAmplitude |-> Some(20), movingSpeed |-> Some(1),
        difficulty |-> "Easy", endless |-> FALSE],
       [level |-> 2, descentInterval |-> 1500, timeLimitSeconds |-> None,
        movingRows |-> {}, movingAmplitude |-> None, movingSpeed |-> None,
        difficulty |-> "Hard", endless |-> FALSE] >>

levelByIndex(i) ==
    LEVELS[(IF i < 0 THEN 0 ELSE IF i > Len(LEVELS) - 1 THEN Len(LEVELS) - 1 ELSE i) + 1]

clamp(v, lo, hi) == IF v < lo THEN lo ELSE IF v > hi THEN hi ELSE v

Min(a, b) == IF a < b THEN a ELSE b

\* integer quotient rounded toward zero (whole pixels of a real product)
Quot(a, b) == IF a >= 0 THEN a \div b ELSE -((-a) \div b)

(***************************************************************************)
(* Math.sin / Math.cos on milliradians, result scaled by Unit              *)
(* (Bhaskara's rational approximation, exact at 0, pi/6, pi/2, pi)         *)
(***************************************************************************)
SinHalf(x) ==
    LET p == (x * (Pi - x)) \div Percent
    IN  (Unit * 16 * p) \div (5 * ((Pi * Pi) \div Percent) - 4 * p)

Sin(a) ==
    LET r == a % (2 * Pi)
    IN  IF r <= Pi THEN SinHalf(r) ELSE -SinHalf(r - Pi)

Cos(a) == Sin(a + (Pi \div 2))

(***************************************************************************)
(* Geometry (design 4.1)                                                   *)
(***************************************************************************)
Rows == 0 .. (MAX_ROWS - 1)
Cols == 0 .. (GRID_COLS - 1)
Coords == Rows \X Cols

\* cell.x, cell.y: the cached centre of lattice position (row, col)
CellX(row, col) ==
    LET R == GAME_METRICS.bubbleRadius
        gridLeft == (GAME_METRICS.width - (2 * GRID_COLS + 1) * R) \div 2
    IN  gridLeft + R + col * 2 * R + (IF row % 2 = 1 THEN R ELSE 0)

CellY(row) == GAME_METRICS.topMargin + GAME_METRICS.bubbleRadius + row * RowHeight

\* hex-offset adjacency, alternating with row parity, inside the grid
neighbors(row, col) ==
    LET shift == IF row % 2 = 1 THEN 0 ELSE -1
        raw == { <<row, col - 1>>, <<row, col + 1>>,
                 <<row - 1, col + shift>>, <<row - 1, col + shift + 1>>,
                 <<row + 1, col + shift>>, <<row + 1, col + shift + 1>> }
    IN  raw \cap Coords

Dist2(x1, y1, x2, y2) == (x1 - x2) * (x1 - x2) + (y1 - y2) * (y1 - y2)

(***************************************************************************)
(* Grid (design 4.2) and match engine (design 4.4)                         *)
(***************************************************************************)
EmptyCell == [color |-> "none", type |-> "empty"]
Bubble(c, t) == [color |-> c, type |-> t]
Obstacle == [color |-> "none", type |-> "obstacle"]

Occupied(grid, rc) == grid[rc] # EmptyCell

OccupiedSet(grid) == { rc \in Coords : Occupied(grid, rc) }

gridCleared(grid) == \A rc \in Coords : ~Occupied(grid, rc)

gridReachedFailureLine(grid) ==
    \E rc \in Coords : Occupied(grid, rc) /\ rc[1] >= FAILURE_ROW

\* the grids generateInitialGrid may produce for a level (top rows filled)
InitialGrids(level) ==
    IF level.level = 1
    THEN { [rc \in Coords |->
              CASE rc = <<0, 0>> -> Bubble("blue", "normal")
                [] rc = <<0, 1>> -> Bubble("red", "aim")
                [] rc = <<0, 2>> -> Bubble("blue", "normal")
                [] rc = <<1, 0>> -> Bubble("red", "normal")
                [] rc = <<1, 1>> -> Bubble("blue", "freeze")
                [] rc = <<2, 1>> -> Obstacle
                [] OTHER -> EmptyCell],
           [rc \in Coords |->
              CASE rc[1] = 0 -> Bubble("blue", "normal")
                [] rc = <<1, 0>> -> Bubble("blue", "normal")
                [] rc = <<1, 1>> -> Bubble("red", "normal")
                [] rc = <<2, 1>> -> Bubble("blue", "normal")
                [] OTHER -> EmptyCell] }
    ELSE { [rc \in Coords |->
              CASE rc[1] = 0 -> Bubble("blue", "normal")
                [] rc = <<1, 1>> -> Obstacle
                [] rc = <<2, 1>> -> Bubble("red", "normal")
                [] OTHER -> EmptyCell] }

\* the candidates generateShooterBubble may produce for a level
Candidates(level) ==
    { Bubble("red", "normal"), Bubble("blue", "freeze") }

\* order on <<distance, row, col>> used to pick the closest cell
Closer(rc1, rc2, x, y) ==
    LET d1 == Dist2(CellX(rc1[1], rc1[2]), CellY(rc1[1]), x, y)
        d2 == Dist2(CellX(rc2[1], rc2[2]), CellY(rc2[1]), x, y)
    IN  \/ d1 < d2
        \/ d1 = d2 /\ rc1[1] < rc2[1]
        \/ d1 = d2 /\ rc1[1] = rc2[1] /\ rc1[2] <= rc2[2]

\* empty cells a bubble can rest in: the ceiling row, or next to a bubble
Attachable(grid) ==
    { rc \in Coords :
        /\ ~Occupied(grid, rc)
        /\ \/ rc[1] = 0
           \/ \E n \in neighbors(rc[1], rc[2]) : Occupied(grid, n) }

\* the bubble written into slot rc
PlaceAt(grid, bubble, rc) ==
    [grid |-> [grid EXCEPT ![rc] = Bubble(bubble.color, bubble.type)],
     row |-> rc[1], col |-> rc[2], full |-> FALSE]

\* the closest of the slots, or GridFull when there is none
PlaceIn(grid, bubble, slots) ==
    IF slots = {}
    THEN [grid |-> grid, row |-> 0, col |-> 0, full |-> TRUE]
    ELSE PlaceAt(grid, bubble,
                 CHOOSE c \in slots : \A o \in slots : Closer(c, o, bubble.x, bubble.y))

\* placeBubbleOnGrid(grid, bubble) -> { grid, row, col }; full = GridFull
placeBubbleOnGrid(grid, bubble) == PlaceIn(grid, bubble, Attachable(grid))

\* least set containing seed and closed under neighbours satisfying ok
RECURSIVE Reach(_, _)
Reach(seed, ok) ==
    LET more == { n \in ok : \E rc \in seed : n \in neighbors(rc[1], rc[2]) }
    IN  IF more \subseteq seed THEN seed ELSE Reach(seed \cup more, ok)

\* cells that join a colour cluster of the given colour
SameColor(grid, color) ==
    { rc \in Coords :
        /\ Occupied(grid, rc)
        /\ grid[rc].type # "obstacle"
        /\ (grid[rc].color = color \/ grid[rc].type = "rainbow") }

\* step 1: the colour cluster of the placed cell
ColorCluster(grid, row, col) ==
    Reach({<<row, col>>}, SameColor(grid, grid[<<row, col>>].color))

\* step 2: a cluster is removed when it has at least 3 cells
KeepLarge(cluster) == IF Cardinality(cluster) >= 3 THEN cluster ELSE {}

\* step 2: a bomb clears its cell and the neighbours, whatever their colour
Blast(grid, row, col) ==
    IF grid[<<row, col>>].type = "bomb"
    THEN {<<row, col>>} \cup { n \in neighbors(row, col) : Occupied(grid, n) }
    ELSE {}

Without(grid, cells) ==
    [rc \in Coords |-> IF rc \in cells THEN EmptyCell ELSE grid[rc]]

\* step 3: the occupied cells with no path to row 0
Floating(occ) == occ \ Reach({ rc \in occ : rc[1] = 0 }, occ)

\* steps 4 and 5: the report
MatchReport(grid, removed, g1, floating) ==
    [grid |-> Without(g1, floating),
     removed |-> removed,
     floating |-> floating,
     comboBonus |-> Cardinality(floating),
     triggeredSpecials |->
        { grid[rc].type : rc \in { c \in removed \cup floating :
                                     grid[c].type \in {"freeze", "aim"} } }]

FloatingCleanup(grid, removed, g1) ==
    MatchReport(grid, removed, g1, Floating(OccupiedSet(g1)))

RemoveCells(grid, removed) == FloatingCleanup(grid, removed, Without(grid, removed))

\* computeMatchResult(grid, row, col): the grid after removal and the report
computeMatchResult(grid, row, col) ==
    RemoveCells(grid, KeepLarge(ColorCluster(grid, row, col)) \cup Blast(grid, row, col))

\* dropNewRow(grid, level) -> grid': rows shifted down by one, new row 0
dropNewRow(grid, newRow) ==
    [rc \in Coords |-> IF rc[1] = 0 THEN newRow[rc[2]] ELSE grid[<<rc[1] - 1, rc[2]>>]]

\* the rows dropNewRow may synthesise for a level
NewRows(level) ==
    { [c \in Cols |-> Bubble("blue", "normal")],
      [c \in Cols |-> IF c = 1 THEN Obstacle ELSE Bubble("red", "normal")] }

(***************************************************************************)
(* State of the component                                                  *)
(***************************************************************************)
VARIABLES
    now,               \* performance.now() / the frame timestamp, ms
    levelIndex,        \* useState levelIndex
    runtimeRef,        \* runtimeRef.current : LevelRuntimeState
    hud,               \* useState hud (copy of the runtime state)
    gridRef,           \* gridRef.current
    activeBubbleRef,   \* activeBubbleRef.current (NoBubble = null)
    aimAngleRef,       \* aimAngleRef.current, milliradians
    pointerLockedRef,  \* pointerLockedRef.current
    nextQueueRef,      \* nextQueueRef.current
    shotsRef,          \* shotsRef.current
    stars,             \* useState stars
    isGameOver,        \* useState isGameOver
    rowOffsetRef,      \* rowOffsetRef.current
    lastFrameRef,      \* lastFrameRef.current
    freezeUntilRef,    \* freezeUntilRef.current
    aimBoostUntilRef,  \* aimBoostUntilRef.current
    effectRef,         \* effectRef.current (creation times of the effects)
    loopRunning,       \* a frame callback is scheduled
    fired,             \* number of projectiles launched so far (their ids)
    resets,            \* number of button presses so far (bounded)
    keys,              \* number of aim changes so far (bounded)
    landed,            \* ids of the projectiles resolved into a placement, in order
    last               \* record of the last frame, fire request or reset

vars == << now, levelIndex, runtimeRef, hud, gridRef, activeBubbleRef,
           aimAngleRef, pointerLockedRef, nextQueueRef, shotsRef, stars,
           isGameOver, rowOffsetRef, lastFrameRef, freezeUntilRef,
           aimBoostUntilRef, effectRef, loopRunning, fired, resets, keys, landed,
           last >>

\* null; a bubble's id is the number of the fire request that launched it
NoBubble ==
    [id |-> 0, color |-> "none", type |-> "none", x |-> 0, y |-> 0,
     dx |-> 0, dy |-> 0, speed |-> 0, launchedAt |-> 0]

\* what a handler run records about itself (kept in the variable last)
Idle ==
    [op |-> "init", fire |-> FALSE, accepted |-> FALSE,
     delta |-> 0, dropped |-> FALSE, breach |-> FALSE, expired |-> FALSE,
     before |-> NoBubble, seen |-> NoBubble, integ |-> NoBubble,
     moved |-> NoBubble, ceiling |-> FALSE, contact |-> FALSE,
     nearObstacle |-> FALSE, resolved |-> << >>, placed |-> << >>,
     overLine |-> FALSE, livesStart |-> 0, clearedStart |-> FALSE,
     livesDrop |-> 0, livesMid |-> 0, bubbleMid |-> NoBubble,
     dropAtStart |-> 0, freezeStart |-> None,
     gridStart |-> << >>, gridDrop |-> << >>, comboDrop |-> 0,
     queueStart |-> << >>, specials |-> {},
     starsStart |-> << >>, gridEmptied |-> FALSE, hitOffset |-> << >>,
     gridFull |-> FALSE,
     removedCount |-> 0]

\* the refs and React state a handler reads and writes, as one value
Store ==
    [now |-> now, runtime |-> runtimeRef, hud |-> hud, grid |-> gridRef,
     bubble |-> activeBubbleRef, aim |-> aimAngleRef, queue |-> nextQueueRef,
     shots |-> shotsRef, stars |-> stars, gameOver |-> isGameOver,
     rowOffset |-> rowOffsetRef, lastFrame |-> lastFrameRef,
     freezeUntil |-> freezeUntilRef, aimBoostUntil |-> aimBoostUntilRef,
     effects |-> effectRef, fired |-> fired, thrown |-> FALSE,
     tr |-> [Idle EXCEPT !.before = activeBubbleRef,
                         !.livesStart = runtimeRef.lives,
                         !.clearedStart = runtimeRef.cleared,
                         !.dropAtStart = runtimeRef.lastDropAt,
                         !.freezeStart = freezeUntilRef]]

\* a ref holding "number | undefined" is truthy
Truthy(opt) == opt.has /\ opt.val # 0

computeShotSpeed(level) ==
    BaseShotSpeed + Min(level.level * ShotSpeedPerLevel, ShotSpeedCap)

difficultyModifier(level) ==
    CASE level.difficulty = "Easy" -> 90
      [] level.difficulty = "Medium" -> 100
      [] level.difficulty = "Hard" -> 118
      [] level.difficulty = "Very Hard" -> 130
      [] OTHER -> 142

computeStarRating(score, shots, livesLeft, level) ==
    LET many == IF shots > 1 THEN shots ELSE 1
        scoreNorm == score * difficultyModifier(level) + livesLeft * 400 * Percent
        t0 == (3000 + level.level * 160) * Percent
        t1 == (5500 + level.level * 260) * Percent
        t2 == (8000 + level.level * 340) * Percent
    IN  IF scoreNorm >= t2 /\ score > 120 * many THEN 3
        ELSE IF scoreNorm >= t1 /\ score > 95 * many THEN 2
        ELSE IF scoreNorm >= t0 THEN 1
        ELSE 0

\* resetLevelState(level), created in a render whose levelIndex is idx
resetLevelState(S, level, idx, g, c1, c2) ==
    LET rt == [level |-> level,
               score |-> IF idx = 0 THEN 0 ELSE S.runtime.score,
               combo |-> 1,
               lives |-> InitialLives,
               cleared |-> FALSE,
               timeLeft |-> IF level.timeLimitSeconds.has
                            THEN Some(level.timeLimitSeconds.val * MsPerSecond)
                            ELSE None,
               lastDropAt |-> S.now]
    IN  [S EXCEPT !.runtime = rt,
                  !.freezeUntil = None,
                  !.aimBoostUntil = None,
                  !.hud = rt,
                  !.grid = g,
                  !.bubble = NoBubble,
                  !.aim = -(Pi \div 2),
                  !.rowOffset = [r \in Rows |-> 0],
                  !.queue = <<c1, c2>>,
                  !.shots = 0,
                  !.lastFrame = None,
                  !.effects = {}]

\* variant: the queue is not replenished after its head is taken
activateNextBubbleNoRefill(queue, c1, c2) ==
    Tail(queue)

\* variant: the generated candidate is put in front of the waiting one
activateNextBubbleNewFirst(queue, c1, c2) ==
    <<c2>> \o Tail(queue)

\* activateNextBubble(): the new queue (the head is what is returned)
activateNextBubble(queue, c1, c2) ==
    LET rest == Tail(queue)
        next == IF Len(rest) > 0 THEN rest ELSE <<c1>>
    IN  next \o <<c2>>

\* variant: the combo is raised without the clamp
handleMatchResultsUncapped(S, removedCount, comboBonus) ==
    LET rt == IF removedCount > 0
              THEN LET combo == S.runtime.combo + 1
                       gained == removedCount * 80 + comboBonus * combo * 10
                                   + (IF removedCount >= 6 THEN 150 ELSE 0)
                   IN  [S.runtime EXCEPT !.combo = combo, !.score = @ + gained]
              ELSE [S.runtime EXCEPT !.combo = 1]
    IN  [S EXCEPT !.runtime = rt, !.hud = rt]

handleMatchResults(S, removedCount, comboBonus) ==
    LET rt == IF removedCount > 0
              THEN LET combo == clamp(S.runtime.combo + 1, 1, MAX_COMBO_MULTIPLIER)
                       gained == removedCount * 80 + comboBonus * combo * 10
                                   + (IF removedCount >= 6 THEN 150 ELSE 0)
                   IN  [S.runtime EXCEPT !.combo = combo, !.score = @ + gained]
              ELSE [S.runtime EXCEPT !.combo = 1]
    IN  [S EXCEPT !.runtime = rt, !.hud = rt]

triggerSpecialEffect(S, type) ==
    IF type = "freeze" THEN [S EXCEPT !.freezeUntil = Some(S.now + FreezeDuration)]
    ELSE IF type = "aim" THEN [S EXCEPT !.aimBoostUntil = Some(S.now + AimBoostDuration)]
    ELSE S

\* match.triggeredSpecials.forEach(triggerSpecialEffect)
triggerAll(S, types) ==
    LET S1 == IF "freeze" \in types THEN triggerSpecialEffect(S, "freeze") ELSE S
    IN  IF "aim" \in types THEN triggerSpecialEffect(S1, "aim") ELSE S1

(***************************************************************************)
(* Placement                                                               *)
(***************************************************************************)
\* variant: the earlier entry of the level is kept next to the new one
MarkClearedKeepingEntries(S, level) ==
    IF gridCleared(S.grid)
    THEN LET rt == [S.runtime EXCEPT !.cleared = TRUE]
         IN  [S EXCEPT !.runtime = rt,
                       !.hud = rt,
                       !.stars = Append(S.stars,
                           [level |-> level.level,
                            stars |-> computeStarRating(rt.score, S.shots, rt.lives, level),
                            score |-> rt.score])]
    ELSE S

\* resolveLanding, lines 309 - 327: the level is cleared
MarkCleared(S, level) ==
    IF gridCleared(S.grid)
    THEN LET rt == [S.runtime EXCEPT !.cleared = TRUE]
             kept == SelectSeq(S.stars, LAMBDA e : e.level # level.level)
         IN  [S EXCEPT !.runtime = rt,
                       !.hud = rt,
                       !.stars = Append(kept,
                           [level |-> level.level,
                            stars |-> computeStarRating(rt.score, S.shots, rt.lives, level),
                            score |-> rt.score])]
    ELSE S

\* resolveLanding, lines 288 - 327: the match is scored and applied
Matched(S, bubble, p, match) ==
    MarkCleared(
        triggerAll(
            handleMatchResults(
                [S EXCEPT !.grid = match.grid,
                          !.effects = IF Cardinality(match.removed) > 0
                                      THEN @ \cup {S.now} ELSE @,
                          !.tr.resolved = Append(@, bubble.id),
                          !.tr.placed = <<p.row, p.col>>,
                          !.tr.specials = match.triggeredSpecials,
                          !.tr.gridEmptied = gridCleared(match.grid),
                          !.tr.overLine = gridReachedFailureLine(match.grid)],
                Cardinality(match.removed) + Cardinality(match.floating),
                match.comboBonus),
            match.triggeredSpecials),
        S.runtime.level)

\* resolveLanding after placeBubbleOnGrid; GridFull propagates as an error
Placed(S, bubble, p) ==
    IF p.full THEN [S EXCEPT !.thrown = TRUE, !.tr.gridFull = TRUE]
    ELSE Matched(S, bubble, p, computeMatchResult(p.grid, p.row, p.col))

\* resolveLanding(bubble)
resolveLanding(S, bubble) == Placed(S, bubble, placeBubbleOnGrid(S.grid, bubble))

(***************************************************************************)
(* Firing                                                                  *)
(***************************************************************************)
\* variant: the early return on an active projectile is missing
ShootRejectedIgnoringActive(S) ==
    S.runtime.cleared \/ S.runtime.lives <= 0

\* variant: the early return on a cleared or failed level is missing
ShootRejectedIgnoringTerminal(S) ==
    S.bubble # NoBubble

\* the two early returns of performShoot
ShootRejected(S) ==
    \/ S.runtime.cleared \/ S.runtime.lives <= 0
    \/ S.bubble # NoBubble

\* variant: the shot is counted before the early returns
performShootCountingFirst(S, c1, c2) ==
    IF ShootRejected(S) THEN [S EXCEPT !.shots = @ + 1]
    ELSE
    LET shooter == Head(S.queue)
        b == [id |-> S.fired + 1,
              color |-> shooter.color,
              type |-> shooter.type,
              x |-> GAME_METRICS.width \div 2,
              y |-> GAME_METRICS.shooterY - GAME_METRICS.bubbleRadius - LaunchGap,
              dx |-> Cos(S.aim),
              dy |-> Sin(S.aim),
              speed |-> computeShotSpeed(S.runtime.level),
              launchedAt |-> S.now]
        S1 == [S EXCEPT !.queue = activateNextBubble(S.queue, c1, c2),
                        !.bubble = b,
                        !.fired = @ + 1,
                        !.shots = @ + 1]
    IN  IF shooter.type # "normal"
        THEN triggerSpecialEffect(S1, shooter.type) ELSE S1

performShoot(S, c1, c2) ==
    IF ShootRejected(S) THEN S
    ELSE
    LET shooter == Head(S.queue)
        speed == computeShotSpeed(S.runtime.level)
        b == [id |-> S.fired + 1,
              color |-> shooter.color,
              type |-> shooter.type,
              x |-> GAME_METRICS.width \div 2,
              y |-> GAME_METRICS.shooterY - GAME_METRICS.bubbleRadius - LaunchGap,
              dx |-> Cos(S.aim),
              dy |-> Sin(S.aim),
              speed |-> speed,
              launchedAt |-> S.now]
        S1 == [S EXCEPT !.queue = activateNextBubble(S.queue, c1, c2),
                        !.bubble = b,
                        !.fired = @ + 1]
        S2 == IF shooter.type # "normal"
              THEN triggerSpecialEffect(S1, shooter.type) ELSE S1
    IN  [S2 EXCEPT !.shots = @ + 1]

(***************************************************************************)
(* Life loss, descent and time limit                                       *)
(***************************************************************************)
\* loseLife(); g is the grid generateInitialGrid returns
loseLife(S, g) ==
    LET rt == [S.runtime EXCEPT !.lives = @ - 1, !.combo = 1]
        S1 == [S EXCEPT !.runtime = rt, !.hud = rt, !.grid = g, !.bubble = NoBubble]
    IN  IF rt.lives <= 0
        THEN [S1 EXCEPT !.runtime = [rt EXCEPT !.cleared = FALSE], !.gameOver = TRUE]
        ELSE S1

\* variant: the freeze effect does not lengthen the interval
DropDueIgnoringFreeze(S, timestamp) ==
    timestamp - S.runtime.lastDropAt >= S.runtime.level.descentInterval

\* the condition under which dropCycle(timestamp) drops a row
DropDue(S, timestamp) ==
    LET level == S.runtime.level
        frozen == Truthy(S.freezeUntil) /\ S.freezeUntil.val > timestamp
    IN  IF frozen
        THEN (timestamp - S.runtime.lastDropAt) * Percent >= level.descentInterval * FreezeFactor
        ELSE timestamp - S.runtime.lastDropAt >= level.descentInterval

\* dropCycle(timestamp); the value dropNewRow returns is not used
dropCycle(S, timestamp, newRow, g) ==
    IF DropDue(S, timestamp)
    THEN LET shifted == dropNewRow(S.grid, newRow)
             rt == [S.runtime EXCEPT !.lastDropAt = timestamp]
             S1 == [S EXCEPT !.runtime = rt, !.hud = rt, !.tr.dropped = TRUE]
         IN  IF gridReachedFailureLine(S1.grid)
             THEN loseLife([S1 EXCEPT !.tr.breach = TRUE], g)
             ELSE S1
    ELSE S

\* applyTimeLimit(delta); the caller checks level.timeLimitSeconds as well
applyTimeLimit(S, delta, g) ==
    IF ~S.runtime.level.timeLimitSeconds.has THEN S
    ELSE
    LET remaining == (IF S.runtime.timeLeft.has THEN S.runtime.timeLeft.val ELSE 0) - delta
    IN  IF remaining <= 0
        THEN LET S1 == loseLife([S EXCEPT !.runtime.timeLeft = Some(0),
                                          !.tr.expired = TRUE], g)
                 \* runtime is the object loseLife decremented; its cleared
                 \* field is not the copy loseLife may have stored
                 rt == [S1.runtime EXCEPT !.cleared = S.runtime.cleared,
                                          !.lastDropAt = S.now]
             IN  [S1 EXCEPT !.runtime = rt, !.hud = rt]
        ELSE LET rt == [S.runtime EXCEPT !.timeLeft = Some(remaining)]
             IN  [S EXCEPT !.runtime = rt, !.hud = rt]

\* whether applyTimeLimit(delta) will call loseLife
TimeExpires(S, delta) ==
    /\ S.runtime.level.timeLimitSeconds.has
    /\ (IF S.runtime.timeLeft.has THEN S.runtime.timeLeft.val ELSE 0) - delta <= 0

updateMovingRows(S, timestamp) ==
    LET level == S.runtime.level
        amplitude == IF level.movingAmplitude.has THEN level.movingAmplitude.val
                     ELSE DefaultAmplitude
        speed == IF level.movingSpeed.has THEN level.movingSpeed.val ELSE 1
        wave(row) == Sin(Quot(timestamp * speed * Unit, WavePeriod) + row * Unit)
    IN  [S EXCEPT !.rowOffset =
            [row \in Rows |->
                IF row \in level.movingRows
                THEN Quot(wave(row) * amplitude * (IF row % 2 = 0 THEN 1 ELSE -1), Unit)
                ELSE @[row]]]

pruneEffects(S) ==
    [S EXCEPT !.effects = { t \in @ : S.now - t < EffectDuration }]

(***************************************************************************)
(* Projectile step (design 4.3)                                            *)
(***************************************************************************)
LeftBound == GAME_METRICS.bubbleRadius + SideMargin
RightBound == GAME_METRICS.width - (GAME_METRICS.bubbleRadius + SideMargin)

\* bubble.x += dx * speed * deltaSeconds, and y alike
Integrate(b, deltaMs) ==
    [b EXCEPT !.x = @ + Quot(b.dx * b.speed * deltaMs, Unit * MsPerSecond),
              !.y = @ + Quot(b.dy * b.speed * deltaMs, Unit * MsPerSecond)]

\* variant: dx is reflected but x is not clamped back inside the bounds
WallBounceNoClamp(b) ==
    IF b.x <= LeftBound \/ b.x >= RightBound
    THEN [b EXCEPT !.dx = -@]
    ELSE b

\* variant: only the left wall is tested
WallBounceLeftOnly(b) ==
    IF b.x <= LeftBound
    THEN [b EXCEPT !.dx = -@, !.x = clamp(b.x, LeftBound, RightBound)]
    ELSE b

\* variant: a bounce reverses the vertical direction as well
WallBounceReversing(b) ==
    IF b.x <= LeftBound \/ b.x >= RightBound
    THEN [b EXCEPT !.dx = -@, !.dy = -@, !.x = clamp(b.x, LeftBound, RightBound)]
    ELSE b

\* the wall test and what it does to the bubble
WallBounce(b) ==
    IF b.x <= LeftBound \/ b.x >= RightBound
    THEN [b EXCEPT !.dx = -@, !.x = clamp(b.x, LeftBound, RightBound)]
    ELSE b

\* variant: the ceiling test compares with the top of the canvas
CeilingAtCanvasTop(b) ==
    b.y <= 0

\* bubble.y <= topMargin + bubbleRadius / 2
CeilingReached(b) ==
    2 * b.y <= 2 * GAME_METRICS.topMargin + GAME_METRICS.bubbleRadius

\* the cell at rc is within contact distance of the bubble's centre
WithinContact(rowOffset, b, rc) ==
    Dist2(b.x, b.y, CellX(rc[1], rc[2]) + rowOffset[rc[1]], CellY(rc[1]))
        <= (GAME_METRICS.bubbleRadius * 2 - OverlapTolerance)
             * (GAME_METRICS.bubbleRadius * 2 - OverlapTolerance)

\* the cells the contact loop tests
Collidable(grid) ==
    { rc \in Coords : Occupied(grid, rc) /\ grid[rc].type # "obstacle" }

\* the cells the contact loop tests, each with the x of its centre
ContactTests(grid, rowOffset) ==
    { <<rc, CellX(rc[1], rc[2]) + rowOffset[rc[1]]>> : rc \in Collidable(grid) }

\* the cells drawScene draws, each with the x of the centre of its circle
drawScene(grid, rowOffset) ==
    { <<rc, CellX(rc[1], rc[2]) + rowOffset[rc[1]]>> : rc \in OccupiedSet(grid) }

Touching(grid, rowOffset, b) ==
    \E rc \in Collidable(grid) : WithinContact(rowOffset, b, rc)

\* an obstacle cell is within contact distance of the bubble's centre
ObstacleWithin(grid, rowOffset, b) ==
    \E rc \in Coords : grid[rc].type = "obstacle" /\ WithinContact(rowOffset, b, rc)

\* variant: activeBubbleRef.current is not set to null after resolveLanding
ClearBubbleForgotten(S) == S

\* activeBubbleRef.current = null, unless resolveLanding failed
ClearBubble(S) == IF S.thrown THEN S ELSE [S EXCEPT !.bubble = NoBubble]

\* variant: the bubble is resolved whether or not a stop condition held
LandEveryTick(S, ceiling, contact) ==
    ClearBubble(resolveLanding(S, S.bubble))

\* what updateActiveBubble does once the bubble has been moved
Land(S, ceiling, contact) ==
    IF ceiling \/ contact THEN ClearBubble(resolveLanding(S, S.bubble)) ELSE S

updateActiveBubble(S, deltaMs) ==
    IF S.bubble = NoBubble THEN S
    ELSE LET integ == Integrate(S.bubble, deltaMs)
             b == WallBounce(integ)
             ceiling == CeilingReached(b)
             contact == Touching(S.grid, S.rowOffset, b)
         IN  Land([S EXCEPT !.bubble = b,
                            !.tr.integ = integ,
                            !.tr.moved = b,
                            !.tr.ceiling = ceiling,
                            !.tr.contact = contact,
                            !.tr.hitOffset = S.rowOffset,
                            !.tr.nearObstacle = ObstacleWithin(S.grid, S.rowOffset, b)],
                  ceiling, contact)

(***************************************************************************)
(* One frame: animationLoop(timestamp)                                     *)
(***************************************************************************)
\* delta as animationLoop computes it from lastFrameRef
FrameDelta(S, timestamp) ==
    IF Truthy(S.lastFrame) THEN timestamp - S.lastFrame.val ELSE 0

\* the start of animationLoop: lastFrameRef and delta
BeginFrame(S, timestamp) ==
    [S EXCEPT !.now = timestamp,
              !.lastFrame = Some(timestamp),
              !.tr.delta = FrameDelta(S, timestamp),
              !.tr.gridStart = S.grid,
              !.tr.starsStart = S.stars]

NoteDrop(S) ==
    [S EXCEPT !.tr.livesDrop = S.runtime.lives, !.tr.seen = S.bubble,
              !.tr.gridDrop = S.grid, !.tr.comboDrop = S.runtime.combo]

NoteMove(S) == [S EXCEPT !.tr.livesMid = S.runtime.lives, !.tr.bubbleMid = S.bubble]

\* variant: updateActiveBubble(delta) is called before dropCycle(timestamp)
MoveThenDrop(S, timestamp, newRow, g) ==
    NoteMove(NoteDrop(dropCycle(updateActiveBubble(S, S.tr.delta),
                                timestamp, newRow, g)))

\* dropCycle(timestamp); updateActiveBubble(delta)
DropThenMove(S, timestamp, newRow, g) ==
    NoteMove(updateActiveBubble(NoteDrop(dropCycle(S, timestamp, newRow, g)),
                                S.tr.delta))

\* pruneEffects(); updateMovingRows(timestamp); (drawScene draws only)
Cleanup(S, timestamp) ==
    IF S.thrown THEN S ELSE updateMovingRows(pruneEffects(S), timestamp)

\* animationLoop up to drawScene
FrameHead(S, timestamp, newRow, g) ==
    Cleanup(DropThenMove(BeginFrame(S, timestamp), timestamp, newRow, g), timestamp)

\* the rest of animationLoop
FrameTail(S, g) ==
    IF S.thrown THEN S
    ELSE IF S.runtime.level.timeLimitSeconds.has THEN applyTimeLimit(S, S.tr.delta, g)
    ELSE S

(***************************************************************************)
(* Inputs of the environment                                               *)
(***************************************************************************)
\* time between two frames, ms
Deltas == {FrameMs}

\* Math.atan2 of the pointer position, before clamping: a pointer to the
\* lower left and one to the lower right of the shooter
PointerAngles == {-3000, 500}

\* the new values of the refs and state a handler leaves behind
Commit(S) ==
    /\ now' = S.now
    /\ runtimeRef' = S.runtime
    /\ hud' = S.hud
    /\ gridRef' = S.grid
    /\ activeBubbleRef' = S.bubble
    /\ aimAngleRef' = S.aim
    /\ nextQueueRef' = S.queue
    /\ shotsRef' = S.shots
    /\ stars' = S.stars
    /\ isGameOver' = S.gameOver
    /\ rowOffsetRef' = S.rowOffset
    /\ lastFrameRef' = S.lastFrame
    /\ freezeUntilRef' = S.freezeUntil
    /\ aimBoostUntilRef' = S.aimBoostUntil
    /\ effectRef' = S.effects
    /\ fired' = S.fired

(***************************************************************************)
(* Initial state: the first render and the mount effect                    *)
(***************************************************************************)
Init ==
    /\ now = 0
    /\ levelIndex = 0
    /\ \E g \in InitialGrids(levelByIndex(0)) : gridRef = g
    /\ \E c1, c2 \in Candidates(levelByIndex(0)) : nextQueueRef = <<c1, c2>>
    /\ runtimeRef = [level |-> levelByIndex(0), score |-> 0, combo |-> 1,
                     lives |-> InitialLives, cleared |-> FALSE,
                     timeLeft |-> IF levelByIndex(0).timeLimitSeconds.has
                                  THEN Some(levelByIndex(0).timeLimitSeconds.val
                                              * MsPerSecond)
                                  ELSE None,
                     lastDropAt |-> 0]
    /\ hud = runtimeRef
    /\ activeBubbleRef = NoBubble
    /\ aimAngleRef = -(Pi \div 2)
    /\ pointerLockedRef = FALSE
    /\ shotsRef = 0
    /\ stars = << >>
    /\ isGameOver = FALSE
    /\ rowOffsetRef = [r \in Rows |-> 0]
    /\ lastFrameRef = None
    /\ freezeUntilRef = None
    /\ aimBoostUntilRef = None
    /\ effectRef = {}
    /\ loopRunning = TRUE
    /\ fired = 0
    /\ resets = 0
    /\ keys = 0
    /\ landed = << >>
    /\ last = Idle

(***************************************************************************)
(* Actions                                                                 *)
(***************************************************************************)
\* the frame callback has run and left S behind
EndFrame(S) ==
    /\ Commit(S)
    /\ loopRunning' = ~S.thrown
    /\ landed' = landed \o S.tr.resolved
    /\ last' = [S.tr EXCEPT !.op = "tick"]
    /\ UNCHANGED <<levelIndex, pointerLockedRef, resets, keys>>

\* applyTimeLimit with the grid generateInitialGrid returns, if it is called
TimeLimitStep(S) ==
    \E g2 \in (IF ~S.thrown /\ TimeExpires(S, S.tr.delta)
               THEN InitialGrids(S.runtime.level) ELSE {S.grid}) :
        EndFrame(FrameTail(S, g2))

\* requestAnimationFrame callback: animationLoop(timestamp)
Tick ==
    /\ loopRunning
    /\ \E dt \in Deltas :
        /\ now + dt <= MaxTime
        /\ \E newRow \in (IF DropDue(Store, now + dt) THEN NewRows(runtimeRef.level)
                          ELSE {[c \in Cols |-> EmptyCell]}) :
           \E g1 \in (IF DropDue(Store, now + dt) /\ gridReachedFailureLine(gridRef)
                      THEN InitialGrids(runtimeRef.level) ELSE {gridRef}) :
               TimeLimitStep(FrameHead(Store, now + dt, newRow, g1))

\* what a fire request leaves behind (pointer down or Space)
Shoot ==
    /\ ShootRejected(Store) \/ fired < MaxShots
    /\ \E c2 \in Candidates(runtimeRef.level) :
       \E c1 \in (IF Len(nextQueueRef) > 1 THEN {c2} ELSE Candidates(runtimeRef.level)) :
        LET S == performShoot(Store, c1, c2)
        IN  /\ Commit(S)
            /\ last' = [S.tr EXCEPT !.op = "fire", !.fire = TRUE,
                                    !.accepted = S.fired # fired,
                                    !.queueStart = nextQueueRef]
    /\ UNCHANGED <<levelIndex, loopRunning, resets, keys, landed>>

\* handlePointerDown
PointerDown ==
    /\ pointerLockedRef' = TRUE
    /\ Shoot

\* handleKeyDown, Space
KeySpace ==
    /\ Shoot
    /\ UNCHANGED pointerLockedRef

\* handlePointerUp
PointerUp ==
    /\ pointerLockedRef' = FALSE
    /\ UNCHANGED <<now, levelIndex, runtimeRef, hud, gridRef, activeBubbleRef,
                   aimAngleRef, nextQueueRef, shotsRef, stars, isGameOver,
                   rowOffsetRef, lastFrameRef, freezeUntilRef, aimBoostUntilRef,
                   effectRef, loopRunning, fired, resets, keys, landed, last>>

\* variant: the angle is stored without the clamp
SetAimUnclamped(angle) ==
    /\ aimAngleRef' = angle
    /\ UNCHANGED <<now, levelIndex, runtimeRef, hud, gridRef, activeBubbleRef,
                   pointerLockedRef, nextQueueRef, shotsRef, stars, isGameOver,
                   rowOffsetRef, lastFrameRef, freezeUntilRef, aimBoostUntilRef,
                   effectRef, loopRunning, fired, resets, landed, last>>

\* the aim handlers change aimAngleRef only
SetAim(angle) ==
    /\ aimAngleRef' = clamp(angle, AimMin, AimMax)
    /\ UNCHANGED <<now, levelIndex, runtimeRef, hud, gridRef, activeBubbleRef,
                   pointerLockedRef, nextQueueRef, shotsRef, stars, isGameOver,
                   rowOffsetRef, lastFrameRef, freezeUntilRef, aimBoostUntilRef,
                   effectRef, loopRunning, fired, resets, landed, last>>

\* handlePointerMove
PointerMove ==
    /\ pointerLockedRef
    /\ keys < MaxKeys
    /\ keys' = keys + 1
    /\ \E a \in PointerAngles : SetAim(a)

\* handleKeyDown, ArrowLeft
ArrowLeft ==
    /\ keys < MaxKeys
    /\ keys' = keys + 1
    /\ SetAim(aimAngleRef - AimStep)

\* handleKeyDown, ArrowRight
ArrowRight ==
    /\ keys < MaxKeys
    /\ keys' = keys + 1
    /\ SetAim(aimAngleRef + AimStep)

\* a button handler that resets the level: resetLevelState of the render
\* that created the handler, then the levelIndex effect if levelIndex changed
Reset(op, target) ==
    /\ resets < MaxResets
    /\ resets' = resets + 1
    /\ levelIndex' = target
    /\ \E g \in InitialGrids(levelByIndex(target)) :
       \E c1, c2 \in Candidates(levelByIndex(target)) :
        LET S1 == resetLevelState(Store, levelByIndex(target), levelIndex, g, c1, c2)
            S2 == IF target # levelIndex
                  THEN resetLevelState(S1, levelByIndex(target), target, g, c1, c2)
                  ELSE S1
            S3 == IF op = "restartGame" THEN [S2 EXCEPT !.stars = << >>] ELSE S2
        IN  Commit(IF op = "advance" THEN S3 ELSE [S3 EXCEPT !.gameOver = FALSE])
    /\ loopRunning' = TRUE
    /\ last' = [Store.tr EXCEPT !.op = op]
    /\ UNCHANGED <<pointerLockedRef, keys, landed>>

\* handleAdvanceLevel (button shown when canGoNextLevel)
AdvanceLevel ==
    /\ hud.cleared /\ levelIndex < Len(LEVELS) - 1
    /\ Reset("advance", Min(levelIndex + 1, Len(LEVELS) - 1))

\* handleRestartLevel (button of the game-over overlay)
RestartLevel ==
    /\ isGameOver
    /\ Reset("restartLevel", levelIndex)

\* handleRestartGame (button of both overlays)
RestartGame ==
    /\ isGameOver \/ (hud.cleared /\ ~(levelIndex < Len(LEVELS) - 1))
    /\ Reset("restartGame", 0)

Next ==
    \/ Tick
    \/ PointerDown
    \/ KeySpace
    \/ PointerUp
    \/ PointerMove
    \/ ArrowLeft
    \/ ArrowRight
    \/ AdvanceLevel
    \/ RestartLevel
    \/ RestartGame

Spec == Init /\ [][Next]_vars

\* a grid without a free cell, as placements that matched nothing leave it:
\* no two neighbouring cells have the same colour
FullGrid ==
    [rc \in Coords |->
        Bubble(<<"blue", "red", "green">>
                 [((rc[2] - (rc[1] \div 2) - rc[1] + 3 * MAX_ROWS) % 3) + 1],
               "normal")]

\* a later moment of play on level 2, from which times are counted: level 1
\* was cleared with one shot, and since the advance ten placements that
\* matched nothing have filled the grid
LateInit ==
    /\ now = 0
    /\ levelIndex = 1
    /\ gridRef = FullGrid
    /\ \E c1, c2 \in Candidates(levelByIndex(1)) : nextQueueRef = <<c1, c2>>
    /\ runtimeRef = [level |-> levelByIndex(1), score |-> 0, combo |-> 1,
                     lives |-> InitialLives, cleared |-> FALSE,
                     timeLeft |-> None, lastDropAt |-> 0]
    /\ hud = runtimeRef
    /\ activeBubbleRef = NoBubble
    /\ aimAngleRef = -(Pi \div 2)
    /\ pointerLockedRef = FALSE
    /\ shotsRef = Cardinality(Coords) - Cardinality(OccupiedSet(
                      CHOOSE g \in InitialGrids(levelByIndex(1)) : TRUE))
    /\ stars = <<[level |-> 1, stars |-> 0, score |-> 730]>>
    /\ isGameOver = FALSE
    /\ rowOffsetRef = [r \in Rows |-> 0]
    /\ lastFrameRef = Some(0)
    /\ freezeUntilRef = None
    /\ aimBoostUntilRef = None
    /\ effectRef = {}
    /\ loopRunning = TRUE
    /\ fired = 0
    /\ resets = 0
    /\ keys = 0
    /\ landed = << >>
    /\ last = Idle

\* the behaviours of Spec and those that start with the grid filled
FullGridSpec == (Init \/ LateInit) /\ [][Next]_vars

\* handleMatchResults applied to the counts of some match result
MatchStep ==
    /\ \E removedCount \in 0 .. MaxRemoved : \E comboBonus \in 0 .. MaxBonus :
        LET S == handleMatchResults(Store, removedCount, comboBonus)
        IN  /\ S.runtime.score <= MaxScore
            /\ Commit(S)
            /\ last' = [S.tr EXCEPT !.op = "match",
                                    !.removedCount = removedCount]
    /\ UNCHANGED <<levelIndex, pointerLockedRef, loopRunning, resets, keys, landed>>

\* loseLife, while a life is left
LifeStep ==
    /\ runtimeRef.lives > 0
    /\ \E g \in InitialGrids(runtimeRef.level) :
        LET S == loseLife(Store, g)
        IN  /\ Commit(S)
            /\ last' = [S.tr EXCEPT !.op = "life"]
    /\ UNCHANGED <<levelIndex, pointerLockedRef, loopRunning, resets, keys, landed>>

ComboNext ==
    \/ MatchStep
    \/ LifeStep

\* the combo and the score under any sequence of match results and life
\* losses
ComboSpec == Init /\ [][ComboNext]_vars

\* a frame that comes after the clock has reached MaxTime: in FairSpec the
\* clock runs on while a projectile is in flight, so that its flight ends
LateTick ==
    /\ loopRunning
    /\ activeBubbleRef # NoBubble
    /\ \E dt \in Deltas :
        /\ now + dt > MaxTime
        /\ \E newRow \in (IF DropDue(Store, now + dt) THEN NewRows(runtimeRef.level)
                          ELSE {[c \in Cols |-> EmptyCell]}) :
           \E g1 \in (IF DropDue(Store, now + dt) /\ gridReachedFailureLine(gridRef)
                      THEN InitialGrids(runtimeRef.level) ELSE {gridRef}) :
               TimeLimitStep(FrameHead(Store, now + dt, newRow, g1))

FairNext ==
    \/ Next
    \/ LateTick

\* the steps in which the frame callback runs: the clock advances by one
\* frame interval (the ticks are the only steps that change now)
FrameStep ==
    /\ loopRunning
    /\ \E dt \in Deltas :
        /\ now + dt <= MaxTime \/ activeBubbleRef # NoBubble
        /\ now' = now + dt

\* every frame ends by requesting the next one (line 686), and the browser
\* keeps calling the frame callback while one is requested
FairSpec == Init /\ [][FairNext]_vars /\ WF_now(FrameStep)

(***************************************************************************)
(* Properties                                                              *)
(***************************************************************************)
\* C1: a fire request issued while a projectile is active is rejected; the
\* projectile in flight is neither replaced nor altered and no new one is
\* launched
C1_FireWhileActiveRejected ==
    (last.fire /\ last.before # NoBubble)
        => /\ ~last.accepted
           /\ activeBubbleRef = last.before
           /\ fired = last.before.id

\* a fire request has just been made with a projectile in flight
C1_Witness ==
    /\ last.fire
    /\ last.before # NoBubble
    /\ activeBubbleRef = last.before

\* C2: a fire request made when the level is already cleared, or already
\* failed (lives <= 0), is rejected and creates no projectile
C2_FireWhenOverRejected ==
    (last.fire /\ (last.clearedStart \/ last.livesStart <= 0))
        => /\ ~last.accepted
           /\ activeBubbleRef = last.before

\* a fire request has just been made with no lives left and nothing in flight
C2_Witness ==
    /\ last.fire
    /\ last.livesStart <= 0
    /\ ~last.clearedStart
    /\ last.before = NoBubble
    /\ activeBubbleRef = NoBubble

\* C3: a rejected fire request changes neither the candidate queue, the
\* shots counter, the active projectile, the freeze and aim timers, the
\* grid, nor the runtime counters
C3_RejectedFireIsNoOp ==
    [][(last'.fire /\ ~last'.accepted) =>
         UNCHANGED << nextQueueRef, shotsRef, activeBubbleRef, freezeUntilRef,
                      aimBoostUntilRef, gridRef, runtimeRef, hud, fired >>]_vars

\* a fire request has just been rejected while the freeze timer was running
\* and shots had been counted
C3_Witness ==
    /\ last.fire
    /\ ~last.accepted
    /\ freezeUntilRef.has
    /\ shotsRef > 0

\* C4: a projectile is resolved into a placement at most once; the tick
\* that resolves it performs exactly one resolution, of the projectile it
\* moved, and leaves no active projectile
C4_ResolvedAtMostOnce ==
    /\ \A i, j \in DOMAIN landed : landed[i] = landed[j] => i = j
    /\ (last.op = "tick" /\ last.resolved # << >>)
         => /\ last.resolved = << last.seen.id >>
            /\ last.seen # NoBubble
            /\ last.bubbleMid = NoBubble
            /\ activeBubbleRef = NoBubble

\* the second projectile has just been resolved, the first one earlier
C4_Witness ==
    /\ last.op = "tick"
    /\ Len(last.resolved) = 1
    /\ Len(landed) = 2

\* C5: in a tick where the moved projectile's centre is within contact
\* distance of an obstacle cell's centre, the projectile is resolved
C5_ObstacleContactResolves ==
    (last.op = "tick" /\ last.moved # NoBubble /\ last.nearObstacle)
        => last.resolved = << last.moved.id >>

\* C6: in a tick where the projectile, after integration and wall bounce,
\* is at or above the ceiling threshold, it is resolved in that tick, once,
\* whether or not a bubble is in contact too
C6_CeilingStop ==
    (/\ last.op = "tick"
     /\ last.moved # NoBubble
     /\ 2 * last.moved.y <= 2 * GAME_METRICS.topMargin + GAME_METRICS.bubbleRadius)
        => /\ last.resolved = << last.moved.id >>
           /\ last.bubbleMid = NoBubble

\* a tick has resolved a projectile that was at the ceiling and in contact
C6_Witness ==
    /\ last.op = "tick"
    /\ last.moved # NoBubble
    /\ last.ceiling
    /\ last.contact
    /\ last.resolved = << last.moved.id >>

C8_WallBounce ==
    /\ (last.op = "tick" /\ last.seen # NoBubble)
         => IF \/ last.integ.x <= GAME_METRICS.bubbleRadius + 24
               \/ last.integ.x >= GAME_METRICS.width - (GAME_METRICS.bubbleRadius + 24)
            THEN /\ last.moved.dx = -last.integ.dx
                 /\ last.moved.x >= GAME_METRICS.bubbleRadius + 24
                 /\ last.moved.x <= GAME_METRICS.width - (GAME_METRICS.bubbleRadius + 24)
                 /\ last.moved.x = clamp(last.integ.x, GAME_METRICS.bubbleRadius + 24,
                                    GAME_METRICS.width - (GAME_METRICS.bubbleRadius + 24))
                 /\ last.moved = [last.integ EXCEPT !.dx = last.moved.dx,
                                                    !.x = last.moved.x]
            ELSE last.moved = last.integ
    /\ WallBounce([NoBubble EXCEPT !.x = GAME_METRICS.bubbleRadius + 24 - 1,
                                   !.dx = -Unit])
         = [NoBubble EXCEPT !.x = GAME_METRICS.bubbleRadius + 24, !.dx = Unit]

\* a tick has moved the projectile beyond the left bound and bounced it
C8_Witness ==
    /\ last.op = "tick"
    /\ last.seen # NoBubble
    /\ last.integ.x < GAME_METRICS.bubbleRadius + 24
    /\ last.integ.dx < 0
    /\ last.moved.x = GAME_METRICS.bubbleRadius + 24
    /\ last.moved.dx > 0

C10_PlacementChecksFailureLine ==
    (last.op = "tick" /\ last.resolved # << >> /\ last.overLine)
        => runtimeRef.lives < last.livesStart

C12_DescentBreachCostsLife ==
    (last.op = "tick" /\ last.dropped)
        => \A newRow \in NewRows(runtimeRef.level) :
              IF gridReachedFailureLine(dropNewRow(last.gridStart, newRow))
              THEN /\ last.breach
                   /\ last.livesDrop = last.livesStart - 1
                   /\ last.comboDrop = 1
                   /\ last.gridDrop \in InitialGrids(runtimeRef.level)
                   /\ last.seen = NoBubble
              ELSE last.livesDrop = last.livesStart

(***************************************************************************)
(* C16: when a tick drops a row (and the drop takes no life), the grid the *)
(* rest of the tick reads is the one dropNewRow returns: every cell that   *)
(* was occupied is found one row lower, unchanged, and row 0 is one of the *)
(* rows the level can synthesise.                                          *)
(***************************************************************************)
C16_DescentShiftsGrid ==
    (last.op = "tick" /\ last.dropped /\ ~last.breach)
        => \E newRow \in NewRows(runtimeRef.level) :
              last.gridDrop = dropNewRow(last.gridStart, newRow)


(***************************************************************************)
(* C14: the queue of shooter candidates holds exactly two candidates in    *)
(* every reachable state, whatever fires (accepted or rejected), ticks,    *)
(* life losses, resets and level advances came before.                     *)
(***************************************************************************)
C14_QueueLengthTwo ==
    Len(nextQueueRef) = 2

C14_Witness ==
    /\ Len(nextQueueRef) = 2
    /\ fired = MaxShots
    /\ resets = MaxResets
    /\ levelIndex = 1
    /\ last.op = "tick"

(***************************************************************************)
(* C15: an accepted fire launches a projectile with the colour and kind of *)
(* the candidate that headed the queue, leaves the former second candidate *)
(* at the head, unchanged, and appends exactly one generated candidate.    *)
(***************************************************************************)
C15_QueueFifo ==
    (last.fire /\ last.accepted)
        => /\ activeBubbleRef.color = last.queueStart[1].color
           /\ activeBubbleRef.type = last.queueStart[1].type
           /\ nextQueueRef[1] = last.queueStart[2]
           /\ Len(nextQueueRef) = Len(last.queueStart) - 1 + 1
           /\ nextQueueRef[Len(nextQueueRef)] \in Candidates(levelByIndex(levelIndex))

C15_Witness ==
    /\ last.fire /\ last.accepted
    /\ last.queueStart[1] # last.queueStart[2]
    /\ nextQueueRef[1] = last.queueStart[2]
    /\ nextQueueRef[2] # nextQueueRef[1]
    /\ activeBubbleRef.type = "freeze"


(***************************************************************************)
(* C17: the freeze timer is started only by a tick whose placement's match *)
(* result reports a removed freeze cell, and the aim-boost timer only by   *)
(* one that reports a removed aim cell; in particular a fire request,      *)
(* whatever the kind of the bubble fired, starts neither.                  *)
(***************************************************************************)
C17_EffectsOnlyFromMatches ==
    [][/\ (freezeUntilRef' # freezeUntilRef /\ freezeUntilRef'.has)
            => (last'.op = "tick" /\ "freeze" \in last'.specials)
       /\ (aimBoostUntilRef' # aimBoostUntilRef /\ aimBoostUntilRef'.has)
            => (last'.op = "tick" /\ "aim" \in last'.specials)]_vars


(***************************************************************************)
(* C18: a projectile in flight always moves upwards (dy < 0 for every aim  *)
(* the clamp allows, and a bounce changes only dx), and while frames keep  *)
(* coming with positive elapsed time every fired projectile eventually     *)
(* leaves flight, placed on the grid or discarded.                         *)
(***************************************************************************)
C18_ProjectileLeavesFlight ==
    /\ [](activeBubbleRef # NoBubble => activeBubbleRef.dy < 0)
    /\ \A id \in 1 .. MaxShots :
          (activeBubbleRef.id = id) ~> (activeBubbleRef.id # id)

C18_Witness ==
    /\ last.op = "tick"
    /\ last.before # NoBubble
    /\ last.moved.dx > Unit \div 2
    /\ last.resolved = <<last.before.id>>
    /\ activeBubbleRef = NoBubble


(***************************************************************************)
(* C19: the cleared flag of a level is set exactly by a tick in which a    *)
(* placement leaves the grid without any occupied cell, and by no other    *)
(* operation; that tick records exactly one star entry for the level, in   *)
(* place of any earlier entry of the same level, so that the star list     *)
(* never holds two entries of one level.                                   *)
(***************************************************************************)
C19_ClearedByEmptyingPlacement ==
    /\ [][((~runtimeRef.cleared /\ runtimeRef'.cleared) \/ (~hud.cleared /\ hud'.cleared))
            => (last'.op = "tick" /\ last'.resolved # << >> /\ last'.gridEmptied)]_vars
    /\ []((last.op = "tick" /\ last.gridEmptied)
            => /\ runtimeRef.cleared /\ hud.cleared
               /\ Len(stars) = 1 + Len(SelectSeq(last.starsStart,
                                   LAMBDA e : e.level # runtimeRef.level.level))
               /\ stars[Len(stars)].level = runtimeRef.level.level
               /\ SubSeq(stars, 1, Len(stars) - 1)
                     = SelectSeq(last.starsStart,
                                 LAMBDA e : e.level # runtimeRef.level.level))
    /\ [](\A i, j \in 1 .. Len(stars) : stars[i].level = stars[j].level => i = j)

C19_Witness ==
    /\ last.op = "tick"
    /\ last.gridEmptied
    /\ runtimeRef.cleared
    /\ \E i \in 1 .. Len(last.starsStart) :
          last.starsStart[i].level = runtimeRef.level.level
    /\ Len(stars) = 1


(***************************************************************************)
(* C20: in a tick whose contact loop ran to its end (the projectile is      *)
(* still in flight afterwards), every cell the renderer draws in that tick *)
(* is a cell the contact loop tested, and tested at the x at which it is   *)
(* drawn: the collision check and the display agree on the cells and on    *)
(* their centres.                                                          *)
(***************************************************************************)
C20_CollisionAgreesWithDisplay ==
    (last.op = "tick" /\ last.seen # NoBubble /\ activeBubbleRef # NoBubble)
        => drawScene(gridRef, rowOffsetRef) \subseteq ContactTests(gridRef, last.hitOffset)


C21_LivesInRange ==
    /\ runtimeRef.lives \in 0 .. InitialLives
    /\ hud.lives \in 0 .. InitialLives


(***************************************************************************)
(* C22: on a level with a time limit the expiry of the timer costs exactly *)
(* one life: the tick in which the time limit takes a life takes one, and  *)
(* a tick that starts with the remaining time already at 0 (no level reset *)
(* since the expiry) loses no life to the time limit.                      *)
(***************************************************************************)
C22_ExpiryCostsOneLife ==
    [][(last'.op = "tick")
         => /\ last'.expired => runtimeRef'.lives = last'.livesMid - 1
            /\ (runtimeRef.timeLeft.has /\ runtimeRef.timeLeft.val = 0)
                 => ~last'.expired]_vars


(***************************************************************************)
(* C23: a cleared level is terminal until a level reset: a tick that       *)
(* starts with the cleared flag set takes no life, does not end the game   *)
(* and leaves the cleared flag set.                                        *)
(***************************************************************************)
C23_ClearedIsTerminal ==
    [][(runtimeRef.cleared /\ last'.op = "tick")
         => /\ runtimeRef'.lives = runtimeRef.lives
            /\ isGameOver' = isGameOver
            /\ runtimeRef'.cleared]_vars


(***************************************************************************)
(* C24: a projectile in flight has its x within                            *)
(* [bubbleRadius + 24, width - (bubbleRadius + 24)] in every state, and in *)
(* every tick the position on which the ceiling and contact tests are made *)
(* is within these bounds.                                                 *)
(***************************************************************************)
C24_ProjectileWithinWalls ==
    /\ activeBubbleRef # NoBubble
         => /\ activeBubbleRef.x >= GAME_METRICS.bubbleRadius + 24
            /\ activeBubbleRef.x <= GAME_METRICS.width - (GAME_METRICS.bubbleRadius + 24)
    /\ (last.op = "tick" /\ last.seen # NoBubble)
         => /\ last.moved.x >= GAME_METRICS.bubbleRadius + 24
            /\ last.moved.x <= GAME_METRICS.width - (GAME_METRICS.bubbleRadius + 24)

C24_Witness ==
    /\ last.op = "tick"
    /\ last.seen # NoBubble
    /\ last.integ.x > GAME_METRICS.width - (GAME_METRICS.bubbleRadius + 24)
    /\ activeBubbleRef # NoBubble
    /\ activeBubbleRef.x = GAME_METRICS.width - (GAME_METRICS.bubbleRadius + 24)


(***************************************************************************)
(* C25: the combo multiplier is between 1 and MAX_COMBO_MULTIPLIER (8) in  *)
(* every state; a match result with at least one removed cell raises it by *)
(* exactly 1, capped at 8, and does not lower the score; one with nothing  *)
(* removed, and every life loss, set it to 1.                              *)
(***************************************************************************)
C25_ComboInRange ==
    /\ [](runtimeRef.combo \in 1 .. MAX_COMBO_MULTIPLIER /\ hud.combo = runtimeRef.combo)
    /\ [][/\ (last'.op = "match" /\ last'.removedCount > 0)
               => /\ runtimeRef'.combo = Min(runtimeRef.combo + 1, MAX_COMBO_MULTIPLIER)
                  /\ runtimeRef'.score >= runtimeRef.score
          /\ (last'.op = "match" /\ last'.removedCount = 0)
               => /\ runtimeRef'.combo = 1
                  /\ runtimeRef'.score = runtimeRef.score
          /\ (last'.op = "life") => runtimeRef'.combo = 1]_vars

C25_Witness ==
    /\ last.op = "match"
    /\ last.removedCount > 0
    /\ runtimeRef.combo = MAX_COMBO_MULTIPLIER
    /\ runtimeRef.score >= (MAX_COMBO_MULTIPLIER + 1) * 80


(***************************************************************************)
(* C26: advancing from a cleared level to the next one leaves the          *)
(* accumulated score unchanged, after both the advance handler's and the   *)
(* level-change effect's resetLevelState have run.                          *)
(***************************************************************************)
C26_AdvanceKeepsScore ==
    [][(last'.op = "advance") => runtimeRef'.score = runtimeRef.score]_vars


(***************************************************************************)
(* C27: the aim angle is within [AimMin, AimMax] = [-4*pi/5, -pi/8] in     *)
(* every state, and every projectile has an upward direction (dy < 0) of   *)
(* unit length (within one percent, the error of the sine approximation). *)
(***************************************************************************)
C27_AimWithinConstraints ==
    /\ aimAngleRef >= AimMin
    /\ aimAngleRef <= AimMax
    /\ activeBubbleRef # NoBubble
         => /\ activeBubbleRef.dy < 0
            /\ activeBubbleRef.dx * activeBubbleRef.dx
                 + activeBubbleRef.dy * activeBubbleRef.dy
                 >= Unit * Unit - (Unit * Unit) \div Percent
            /\ activeBubbleRef.dx * activeBubbleRef.dx
                 + activeBubbleRef.dy * activeBubbleRef.dy
                 <= Unit * Unit + (Unit * Unit) \div Percent

C27_Witness ==
    /\ last.op = "fire"
    /\ last.accepted
    /\ aimAngleRef = AimMax
    /\ activeBubbleRef # NoBubble
    /\ activeBubbleRef.dy = Sin(AimMax)

=============================================================================
